---- MODULE Spec2Model ----
(***************************************************************************)
(* npm-daycare: the two Verdaccio plugins of the repository.               *)
(*                                                                         *)
(*   DaycareFilter     (daycare-filter)      src/unnamed/part_003 (age     *)
(*                     only) and src/unnamed/part_002 (popularity + age)   *)
(*   DaycareMiddleware (daycare-middleware)  src/daycare-middleware/src/   *)
(*                     index.ts (tarball gate with the download cache) and *)
(*                     src/unnamed/part_001 (tarball gate + metadata gate) *)
(*                                                                         *)
(* Strings the code inspects are modelled by their structure: a package    *)
(* name is a sequence of tokens (so startsWith/substring act on it), a     *)
(* tarball filename is a sequence of characters (so the version regex acts *)
(* on it), a publish timestamp is a tagged value that Date parsing maps to *)
(* a number of milliseconds or to NaN.                                     *)
(***************************************************************************)
EXTENDS Integers, Sequences, FiniteSets, TLC

VARIABLES
    minAgeHours,        \* DaycareFilter/DaycareMiddleware.minAgeHours
    minWeeklyDownloads, \* DaycareFilter/DaycareMiddleware.minWeeklyDownloads
    now,                \* Date.now(), in milliseconds
    packageInfo,        \* the document the host hands to a filter
    result,             \* the document the filter returned
    call,               \* which filter ran last, and how
    downloadCache,      \* DaycareMiddleware.downloadCache (index.ts)
    requests            \* the intercepted HTTP requests, by slot

vars == <<minAgeHours, minWeeklyDownloads, now, packageInfo, result, call,
          downloadCache, requests>>

filterVars == <<packageInfo, result, call>>
gateVars == <<downloadCache, requests>>

(***************************************************************************)
(* Bounds of the model.                                                    *)
(***************************************************************************)
MaxVersions == 2        \* versions a document lists
MaxPubHour == 1         \* publish times are 0 .. MaxPubHour hours
MaxNowHour == 2         \* the filter clock runs 0 .. MaxNowHour hours
MaxAgeHours == 1        \* minAgeHours is 0 .. MaxAgeHours
MaxThreshold == 1       \* minWeeklyDownloads is 0 .. MaxThreshold
MaxDownloads == 1       \* the statistics endpoint reports 0 .. MaxDownloads

(***************************************************************************)
(* Program constants.                                                      *)
(***************************************************************************)
HOUR_MS == 3600000

(***************************************************************************)
(* Package metadata documents.                                             *)
(***************************************************************************)
\* Version strings a document may list, in the order the bound admits them.
VersionPool == <<"2.0.0", "1.1.0", "1.0.0">>

VersionUniverse ==
    {VersionPool[i] : i \in 1..(IF MaxVersions < Len(VersionPool)
                                  THEN MaxVersions ELSE Len(VersionPool))}

\* A version string no document lists under `versions`: what a dangling
\* dist-tag points at.
UnlistedVersion == "0.9.0"

\* The absent key of a dist-tags object.
NoTag == "(none)"

TagNames == {"latest", "beta"}
TagTargets == VersionUniverse \cup {UnlistedVersion}

ReservedTimeKeys == {"created", "modified"}
\* A version key semver does not accept (no patch number): old registry
\* documents carry such keys.
InvalidVersion == "1.0"

TimeKeys == VersionUniverse \cup {InvalidVersion} \cup ReservedTimeKeys

\* Values of the `time` object: a missing key (undefined), the empty
\* string, a string Date cannot parse, an ISO-8601 string.
MissingTs == [kind |-> "missing", ms |-> 0]
EmptyTs == [kind |-> "empty", ms |-> 0]
BadTs == [kind |-> "bad", ms |-> 0]
IsoTs(ms) == [kind |-> "iso", ms |-> ms]

PubTimes == {h * HOUR_MS : h \in 0..MaxPubHour}
VersionTs == {MissingTs, EmptyTs, BadTs} \cup {IsoTs(ms) : ms \in PubTimes}
ReservedTs == {MissingTs, IsoTs(0)}

NoTags == [t \in TagNames |-> NoTag]
NoTimes == [k \in TimeKeys |-> MissingTs]

Range(s) == {s[i] : i \in 1..Len(s)}

VersionLists ==
    {s \in UNION {[1..n -> VersionUniverse] : n \in 0..MaxVersions} :
        \A i, j \in 1..Len(s) : i # j => s[i] # s[j]}

\* JavaScript truthiness of a `time` entry: undefined and "" are falsy.
Truthy(ts) == ts.kind \in {"bad", "iso"}

\* Mutant: a string Date cannot parse counts as the epoch instead of NaN.
DateGetTimeLenient(ts) ==
    IF ts.kind = "iso" THEN [nan |-> FALSE, ms |-> ts.ms]
                       ELSE [nan |-> FALSE, ms |-> 0]

\* new Date(publishTime).getTime(): milliseconds, or NaN.
DateGetTime(ts) ==
    IF ts.kind = "iso" THEN [nan |-> FALSE, ms |-> ts.ms]
                       ELSE [nan |-> TRUE, ms |-> 0]

\* Mutant: `<` for `>`, so a version passes until it is minAgeHours old.
AgeBelow(nowMs, publishedAt, H) ==
    /\ ~publishedAt.nan
    /\ nowMs - publishedAt.ms < H * HOUR_MS

\* Mutant: `>=` for `>`, so a version published exactly minAgeHours ago passes.
AgeAtLeast(nowMs, publishedAt, H) ==
    /\ ~publishedAt.nan
    /\ nowMs - publishedAt.ms >= H * HOUR_MS

\* (now - publishedAt) / HOUR_MS > minAgeHours. HOUR_MS is positive, so the
\* quotient exceeds H exactly when the difference exceeds H * HOUR_MS; any
\* comparison with NaN is false.
AgeExceeds(nowMs, publishedAt, H) ==
    /\ ~publishedAt.nan
    /\ nowMs - publishedAt.ms > H * HOUR_MS

(***************************************************************************)
(* DaycareFilter.filterPackageMetadata (part_003; part_002 holds the same  *)
(* text at lines 27-120).                                                  *)
(***************************************************************************)
\* `versions || {}`: the keys, in iteration order.
VersionKeys(doc) == IF doc.hasVersions THEN doc.versions ELSE <<>>

\* The forEach over Object.keys(versions): a version is pushed when its
\* publish time is truthy and its age is strictly above the threshold.
Filter_allowedVersionsList(doc, nowMs, H) ==
    SelectSeq(VersionKeys(doc),
              LAMBDA v : /\ Truthy(doc.time[v])
                         /\ AgeExceeds(nowMs, DateGetTime(doc.time[v]), H))

\* Mutant: every tag whose version was not pushed is moved to the first
\* pushed version, the way `latest` is worked around.
FilteredDistTagsRepointAll(doc, allowed) ==
    [t \in TagNames |->
        IF doc.hasTags /\ doc.tags[t] \in Range(allowed) THEN doc.tags[t]
        ELSE IF doc.hasTags /\ doc.tags[t] # NoTag /\ allowed # <<>>
             THEN allowed[1]
        ELSE NoTag]

\* Mutant: the dist-tags are copied without looking at the pushed versions.
FilteredDistTagsUnfiltered(doc, allowed) ==
    [t \in TagNames |-> IF doc.hasTags THEN doc.tags[t] ELSE NoTag]

\* Object.entries(distTags): a tag is kept when its version was pushed.
FilteredDistTags(doc, allowed) ==
    [t \in TagNames |->
        IF doc.hasTags /\ doc.tags[t] \in Range(allowed)
        THEN doc.tags[t] ELSE NoTag]

\* Array.prototype.sort((a, b) => bTime - aTime): stable, newest first. An
\* element is placed behind every element that is at least as new.
RECURSIVE InsertNewestFirst(_, _, _)
InsertNewestFirst(v, sorted, time) ==
    IF sorted = <<>> THEN <<v>>
    ELSE IF DateGetTime(time[Head(sorted)]).ms >= DateGetTime(time[v]).ms
         THEN <<Head(sorted)>> \o InsertNewestFirst(v, Tail(sorted), time)
         ELSE <<v>> \o sorted

RECURSIVE SortNewestFirst(_, _)
SortNewestFirst(list, time) ==
    IF list = <<>> THEN <<>>
    ELSE InsertNewestFirst(list[Len(list)],
                           SortNewestFirst(SubSeq(list, 1, Len(list) - 1), time),
                           time)

\* `distTags?.latest && !filteredDistTags.latest`
LatestFilteredOut(doc, filteredTags) ==
    /\ doc.hasTags
    /\ doc.tags["latest"] # NoTag
    /\ filteredTags["latest"] = NoTag

\* Mutant: the input's time object is returned as it came.
FilteredTimeUnfiltered(doc, allowed) == doc.time

\* Mutant: the times of the versions that were not pushed are the ones kept.
FilteredTimeOfRemoved(doc, allowed) ==
    [k \in TimeKeys |->
        IF k \in ReservedTimeKeys
        THEN (IF Truthy(doc.time[k]) THEN doc.time[k] ELSE MissingTs)
        ELSE (IF k \notin Range(allowed) /\ Truthy(doc.time[k])
              THEN doc.time[k] ELSE MissingTs)]

\* created and modified when truthy, and the pushed versions' times.
FilteredTime(doc, allowed) ==
    [k \in TimeKeys |->
        IF k \in ReservedTimeKeys
        THEN (IF Truthy(doc.time[k]) THEN doc.time[k] ELSE MissingTs)
        ELSE (IF k \in Range(allowed) /\ Truthy(doc.time[k])
              THEN doc.time[k] ELSE MissingTs)]

\* { ...packageInfo, versions: {}, 'dist-tags': {} }: `time` stays as it was.
Filter_minimal(doc) ==
    [doc EXCEPT !.hasVersions = TRUE, !.versions = <<>>,
                !.hasTags = TRUE, !.tags = NoTags]

Filter_filterPackageMetadata(doc, nowMs, H) ==
    IF ~doc.hasTime THEN doc
    ELSE LET allowed == Filter_allowedVersionsList(doc, nowMs, H)
             kept == FilteredDistTags(doc, allowed)
         IN  IF Len(allowed) = 0 THEN Filter_minimal(doc)
             ELSE LET repoint == LatestFilteredOut(doc, kept)
                      sorted == IF repoint
                                THEN SortNewestFirst(allowed, doc.time)
                                ELSE allowed
                      tags == IF repoint
                              THEN [kept EXCEPT !["latest"] = sorted[1]]
                              ELSE kept
                  IN  [doc EXCEPT !.hasVersions = TRUE, !.versions = allowed,
                                  !.hasTags = TRUE, !.tags = tags,
                                  !.time = FilteredTime(doc, sorted)]

(***************************************************************************)
(* DaycareMiddleware's own age filter (part_001).                          *)
(***************************************************************************)
isVersionOldEnough(publishTimeIso, nowMs, H) ==
    /\ Truthy(publishTimeIso)
    /\ AgeExceeds(nowMs, DateGetTime(publishTimeIso), H)

Middleware_allowedVersionsList(doc, nowMs, H) ==
    SelectSeq(doc.versions,
              LAMBDA v : /\ Truthy(doc.time[v])
                         /\ isVersionOldEnough(doc.time[v], nowMs, H))

\* semver's parse of the version strings of the model.
SemverParse(v) ==
    CASE v = "2.0.0" -> <<2, 0, 0>>
      [] v = "1.1.0" -> <<1, 1, 0>>
      [] v = "1.0.0" -> <<1, 0, 0>>
      [] v = "0.9.0" -> <<0, 9, 0>>

\* semver.compare(a, b) <= 0
SemverLeq(a, b) ==
    LET x == SemverParse(a)
        y == SemverParse(b)
    IN  \/ x[1] < y[1]
        \/ x[1] = y[1] /\ x[2] < y[2]
        \/ x[1] = y[1] /\ x[2] = y[2] /\ x[3] <= y[3]

\* semver.sort(list): ascending.
RECURSIVE InsertSemver(_, _)
InsertSemver(v, sorted) ==
    IF sorted = <<>> THEN <<v>>
    ELSE IF SemverLeq(Head(sorted), v)
         THEN <<Head(sorted)>> \o InsertSemver(v, Tail(sorted))
         ELSE <<v>> \o sorted

RECURSIVE SemverSort(_)
SemverSort(list) ==
    IF list = <<>> THEN <<>>
    ELSE InsertSemver(list[Len(list)], SemverSort(SubSeq(list, 1, Len(list) - 1)))

\* semver.sort throws a TypeError when its comparator meets a string that is
\* no version; Array.prototype.sort calls the comparator on every element
\* of a list of two or more.
SemverSortThrows(list) ==
    /\ Len(list) >= 2
    /\ \E i \in 1..Len(list) : list[i] = InvalidVersion

\* { ...packageInfo, versions: {}, 'dist-tags': {},
\*   time: time && { created: time.created, modified: time.modified } }
Middleware_minimal(doc) ==
    [doc EXCEPT !.hasVersions = TRUE, !.versions = <<>>,
                !.hasTags = TRUE, !.tags = NoTags,
                !.time = [k \in TimeKeys |->
                             IF k \in ReservedTimeKeys THEN doc.time[k]
                             ELSE MissingTs]]

Middleware_filterPackageMetadata(doc, nowMs, H) ==
    IF ~doc.hasTime \/ ~doc.hasVersions THEN doc
    ELSE LET allowed == Middleware_allowedVersionsList(doc, nowMs, H)
             kept == FilteredDistTags(doc, allowed)
         IN  IF Len(allowed) = 0 THEN Middleware_minimal(doc)
             ELSE LET repoint == LatestFilteredOut(doc, kept)
                      sorted == IF repoint THEN SemverSort(allowed) ELSE allowed
                      tags == IF repoint
                              THEN [kept EXCEPT !["latest"] = sorted[Len(sorted)]]
                              ELSE kept
                  IN  [doc EXCEPT !.versions = allowed,
                                  !.hasTags = TRUE, !.tags = tags,
                                  !.time = FilteredTime(doc, sorted)]

\* filterPackageMetadata of part_001 throws: `latest` is to be re-pointed and
\* semver.sort throws on the allowed versions.
Middleware_filterThrows(doc, nowMs, H) ==
    /\ doc.hasTime /\ doc.hasVersions
    /\ LET allowed == Middleware_allowedVersionsList(doc, nowMs, H)
       IN  /\ LatestFilteredOut(doc, FilteredDistTags(doc, allowed))
           /\ SemverSortThrows(allowed)

(***************************************************************************)
(* Documents of the model.                                                 *)
(***************************************************************************)
Doc(name, hasVersions, versions, hasTime, time, hasTags, tags) ==
    [name |-> name, hasVersions |-> hasVersions, versions |-> versions,
     hasTime |-> hasTime, time |-> time, hasTags |-> hasTags, tags |-> tags]

\* No document at all (null).
NoDoc == Doc(<<>>, FALSE, <<>>, FALSE, NoTimes, FALSE, NoTags)

\* The `time` objects a document listing `versions` may carry: an entry of
\* any kind for each listed version, created and modified present or not.
TimeMaps(versions) ==
    {tm \in [TimeKeys -> VersionTs] :
        \A k \in TimeKeys :
            /\ k \in ReservedTimeKeys => tm[k] \in ReservedTs
            /\ k \notin ReservedTimeKeys \cup Range(versions) => tm[k] = MissingTs}

TagMaps == [TagNames -> TagTargets \cup {NoTag}]

DocsNamed(name) ==
    UNION {
        {Doc(name, TRUE, vs, TRUE, tm, TRUE, tg) : tm \in TimeMaps(vs), tg \in TagMaps}
        \cup {Doc(name, TRUE, vs, TRUE, tm, FALSE, NoTags) : tm \in TimeMaps(vs)}
        \cup {Doc(name, TRUE, vs, FALSE, NoTimes, TRUE, tg) : tg \in TagMaps}
        : vs \in VersionLists}
    \cup {Doc(name, FALSE, <<>>, TRUE, tm, TRUE, tg) : tm \in TimeMaps(<<>>), tg \in TagMaps}

(***************************************************************************)
(* Package names and the override marker.                                  *)
(***************************************************************************)
ForceMarker == "@force:"

\* packageName.startsWith('@force:')
StartsWithForce(packageName) ==
    Len(packageName) > 0 /\ packageName[1] = ForceMarker

\* `new Set()`, never added to.
allowlistPackages == {}

\* `this.allowManualOverride = true`
allowManualOverride == TRUE

\* Mutant: the override marker is stripped for the allowlist lookup and then
\* forgotten.
isPackageAllowlistedByNameOnly(packageName) ==
    LET actualPackageName ==
            IF allowManualOverride /\ StartsWithForce(packageName)
            THEN Tail(packageName)
            ELSE packageName
    IN  actualPackageName \in allowlistPackages

isPackageAllowlisted(packageName) ==
    LET actualPackageName ==
            IF allowManualOverride /\ StartsWithForce(packageName)
            THEN Tail(packageName)      \* substring(7)
            ELSE packageName
    IN  \/ actualPackageName \in allowlistPackages
        \/ allowManualOverride /\ StartsWithForce(packageName)

\* req.params.package of the unscoped routes.
UnscopedPackages == {<<"left-pad">>, <<ForceMarker, "left-pad">>}
\* req.params.scope and req.params.package of the scoped routes.
Scopes == {<<"@stack">>, <<ForceMarker, "@stack">>}
ScopedPackages == {<<"pkg">>}

\* `${req.params.scope}/${req.params.package}`
ScopedName(scope, package) == scope \o <<"/">> \o package

(***************************************************************************)
(* The version regex of the tarball handlers: a lazy prefix, a "-", the    *)
(* capture group, ".tgz" at the end. The group is a numeric core (digits,  *)
(* then any number of "." digits), any number of segments "-" [^.]+, then  *)
(* any number of segments "+" [^.]+.                                       *)
(***************************************************************************)
Digits == {"0", "1", "2", "3", "4", "5", "6", "7", "8", "9"}

\* The numeric core: digits, then any number of "." digits.
IsNumericCore(s) ==
    /\ Len(s) > 0
    /\ \A i \in 1..Len(s) : s[i] \in Digits \cup {"."}
    /\ s[1] \in Digits /\ s[Len(s)] \in Digits
    /\ \A i \in 1..(Len(s) - 1) : ~(s[i] = "." /\ s[i + 1] = ".")

\* The segments after the core: nothing, or a "-" or "+" followed by at
\* least one character, with no "." anywhere ([^.] also matches "-" and "+",
\* so one segment takes all that follows its first character).
IsSuffixSegments(s) ==
    \/ s = <<>>
    \/ /\ Len(s) >= 2
       /\ s[1] \in {"-", "+"}
       /\ \A i \in 1..Len(s) : s[i] # "."

\* The length of the longest prefix of digits and dots.
CoreLength(s) ==
    IF \A i \in 1..Len(s) : s[i] \in Digits \cup {"."} THEN Len(s)
    ELSE (CHOOSE i \in 1..Len(s) :
            /\ s[i] \notin Digits \cup {"."}
            /\ \A j \in 1..(i - 1) : s[j] \in Digits \cup {"."}) - 1

\* The capture group: a numeric core, which ends where the first character
\* that is neither a digit nor a dot stands, then the suffix segments.
IsVersionGroup(s) ==
    LET n == CoreLength(s)
    IN  /\ IsNumericCore(SubSeq(s, 1, n))
        /\ IsSuffixSegments(SubSeq(s, n + 1, Len(s)))

EndsWithTgz(s) ==
    /\ Len(s) >= 4
    /\ SubSeq(s, Len(s) - 3, Len(s)) = <<".", "t", "g", "z">>

\* Mutant: every filename is taken to carry a version.
VersionMatchAlways(filename) == [matched |-> TRUE, version |-> filename]

\* filename.match(...): `.*?` is lazy, so the first "-" after which the rest
\* matches delimits the group, which runs to the ".tgz" at the end.
VersionMatch(filename) ==
    LET n == Len(filename)
        starts == {i \in 1..n :
                      /\ filename[i] = "-"
                      /\ EndsWithTgz(filename)
                      /\ i + 1 <= n - 4
                      /\ IsVersionGroup(SubSeq(filename, i + 1, n - 4))}
    IN  IF starts = {} THEN [matched |-> FALSE, version |-> <<>>]
        ELSE LET i == CHOOSE k \in starts : \A j \in starts : k <= j
             IN  [matched |-> TRUE, version |-> SubSeq(filename, i + 1, n - 4)]

Filenames ==
    { <<"l","e","f","t","-","p","a","d","-","0",".","0",".","1",".","t","g","z">>,
      <<"l","e","f","t","-","p","a","d","-","2",".","0",".","0",".","t","g","z">>,
      <<"R","E","A","D","M","E",".","t","x","t">>,
      <<"p","k","g","-","1",".","0",".","0","-","b","e","t","a",".","1",".","t","g","z">> }

\* versionMatch of each filename of the model.
VersionMatchOf == [f \in Filenames |-> VersionMatch(f)]

(***************************************************************************)
(* The popularity oracle: what the statistics endpoint may answer, and     *)
(* getWeeklyDownloads in its three copies.                                 *)
(***************************************************************************)
CACHE_TTL == 5 * 60 * 1000

NoOutcome == [kind |-> "none", status |-> 0, downloads |-> 0]
\* fetch() rejects.
NetworkError == [kind |-> "network_error", status |-> 0, downloads |-> 0]
\* A response whose `ok` is false.
HttpError(status) == [kind |-> "http_error", status |-> status, downloads |-> 0]
\* A 200 whose body response.json() cannot parse.
OkUnparsable == [kind |-> "ok_unparsable", status |-> 200, downloads |-> 0]
\* A 200 whose JSON body has no `downloads` field.
OkNoDownloads == [kind |-> "ok_no_downloads", status |-> 200, downloads |-> 0]
\* A 200 whose JSON body carries `downloads`.
OkDownloads(n) == [kind |-> "ok", status |-> 200, downloads |-> n]

OracleOutcomes ==
    {NetworkError, HttpError(404), HttpError(500), OkUnparsable, OkNoDownloads}
    \cup {OkDownloads(n) : n \in 0..MaxDownloads}

\* A query the code treats as failed: the catch block runs.
OracleFailed(o) ==
    \/ o.kind \in {"network_error", "ok_unparsable"}
    \/ o.kind = "http_error" /\ o.status # 404

\* Mutant: a 404 is thrown like any other non-ok status.
Index_fetchWeeklyDownloadsNotFoundThrows(o, W) ==
    IF o.kind \in {"network_error", "http_error", "ok_unparsable"}
    THEN [downloads |-> W, stored |-> FALSE]
    ELSE IF o.kind = "ok_no_downloads" THEN [downloads |-> 0, stored |-> TRUE]
    ELSE [downloads |-> o.downloads, stored |-> TRUE]

\* Mutant: a failed query counts as no downloads at all.
Index_fetchWeeklyDownloadsFailClosed(o, W) ==
    IF o.kind \in {"network_error", "http_error", "ok_unparsable"}
    THEN [downloads |-> 0, stored |-> FALSE]
    ELSE IF o.kind = "ok_no_downloads" THEN [downloads |-> 0, stored |-> TRUE]
    ELSE [downloads |-> o.downloads, stored |-> TRUE]

\* Mutant: downloadCache.set runs before every return, the 404 branch and
\* the catch block included.
Index_fetchWeeklyDownloadsStoresAll(o, W) ==
    IF o.kind = "network_error" THEN [downloads |-> W, stored |-> TRUE]
    ELSE IF o.kind = "http_error"
         THEN (IF o.status = 404 THEN [downloads |-> 0, stored |-> TRUE]
                                 ELSE [downloads |-> W, stored |-> TRUE])
    ELSE IF o.kind = "ok_unparsable" THEN [downloads |-> W, stored |-> TRUE]
    ELSE IF o.kind = "ok_no_downloads" THEN [downloads |-> 0, stored |-> TRUE]
    ELSE [downloads |-> o.downloads, stored |-> TRUE]

\* index.ts, after a cache miss: the count returned, and whether
\* downloadCache.set ran on the way.
Index_fetchWeeklyDownloads(o, W) ==
    IF o.kind = "network_error" THEN [downloads |-> W, stored |-> FALSE]
    ELSE IF o.kind = "http_error"
         THEN (IF o.status = 404 THEN [downloads |-> 0, stored |-> FALSE]
                                 ELSE [downloads |-> W, stored |-> FALSE])
    ELSE IF o.kind = "ok_unparsable" THEN [downloads |-> W, stored |-> FALSE]
    ELSE IF o.kind = "ok_no_downloads" THEN [downloads |-> 0, stored |-> TRUE]
    ELSE [downloads |-> o.downloads, stored |-> TRUE]

\* part_001: no cache.
Middleware_getWeeklyDownloads(o, W) ==
    IF o.kind = "network_error" THEN W
    ELSE IF o.kind = "http_error" THEN (IF o.status = 404 THEN 0 ELSE W)
    ELSE IF o.kind = "ok_unparsable" THEN W
    ELSE IF o.kind = "ok_no_downloads" THEN 0
    ELSE o.downloads

\* part_002: no cache.
Filter_getWeeklyDownloads(o, W) ==
    IF o.kind = "network_error" THEN W
    ELSE IF o.kind = "http_error" THEN (IF o.status = 404 THEN 0 ELSE W)
    ELSE IF o.kind = "ok_unparsable" THEN W
    ELSE IF o.kind = "ok_no_downloads" THEN 0
    ELSE o.downloads

AllPackageNames ==
    UnscopedPackages \cup {ScopedName(sc, p) : sc \in Scopes, p \in ScopedPackages}

NoCacheEntry == [has |-> FALSE, downloads |-> 0, timestamp |-> 0]
EmptyCache == [n \in AllPackageNames |-> NoCacheEntry]

\* Mutant: an entry that is already there is left alone (first writer wins).
CacheSetIfAbsent(cache, packageName, downloads, nowMs) ==
    IF cache[packageName].has THEN cache
    ELSE [cache EXCEPT ![packageName] =
             [has |-> TRUE, downloads |-> downloads, timestamp |-> nowMs]]

\* this.downloadCache.set(packageName, { downloads, timestamp: Date.now() })
CacheSet(cache, packageName, downloads, nowMs) ==
    [cache EXCEPT ![packageName] =
        [has |-> TRUE, downloads |-> downloads, timestamp |-> nowMs]]

\* Mutant: `<=` for `<`, so an entry exactly CACHE_TTL old is still used.
CacheHitInclusive(cache, packageName, nowMs) ==
    /\ cache[packageName].has
    /\ nowMs - cache[packageName].timestamp <= CACHE_TTL

\* `cached && Date.now() - cached.timestamp < this.CACHE_TTL`
CacheHit(cache, packageName, nowMs) ==
    /\ cache[packageName].has
    /\ nowMs - cache[packageName].timestamp < CACHE_TTL

(***************************************************************************)
(* DaycareFilter.filter_metadata, the hook the host calls with a document. *)
(***************************************************************************)
NoCall ==
    [comp |-> "none",           \* none | age | popularity | gate
     pass |-> 0,                \* 1: on the host's document, 2: on the output
     at |-> 0,                  \* Date.now() of the call
     prevAt |-> 0,              \* Date.now() of the call before it
     oracle |-> NoOutcome,      \* the statistics endpoint's answer
     prevOracle |-> NoOutcome,  \* its answer to the call before it
     fetches |-> 0,             \* fetch() calls to the statistics endpoint
     weeklyDownloads |-> -1,    \* what getWeeklyDownloads returned
     blocked |-> FALSE,         \* the popularity branch returned
     repointed |-> FALSE,       \* the call moved `latest` to another version
     again |-> FALSE]           \* the same document was filtered before

\* Whether `out` carries a `latest` that differs from the one `doc` carried.
Repointed(doc, out) ==
    /\ doc.hasTags
    /\ doc.tags["latest"] # NoTag
    /\ out.tags["latest"] \notin {NoTag, doc.tags["latest"]}

\* part_003: the age filter alone.
FilterMetadataAge ==
    /\ call.comp = "none"
    /\ packageInfo # NoDoc
    /\ result' = Filter_filterPackageMetadata(packageInfo, now, minAgeHours)
    /\ call' = [NoCall EXCEPT !.comp = "age", !.pass = 1, !.at = now,
                              !.repointed = Repointed(packageInfo, result')]
    /\ UNCHANGED <<minAgeHours, minWeeklyDownloads, now, packageInfo, gateVars>>

\* part_002: the popularity check, then the age filter. `o` is the answer
\* of the statistics endpoint to the one query the call makes.
Filter_filter_metadata(doc, o, nowMs, H, W) ==
    IF Filter_getWeeklyDownloads(o, W) < W
    THEN Filter_minimal(doc)
    ELSE Filter_filterPackageMetadata(doc, nowMs, H)

FilterMetadataPopularity ==
    \E o \in OracleOutcomes :
        /\ call.comp = "none"
        /\ packageInfo # NoDoc
        /\ result' = Filter_filter_metadata(packageInfo, o, now, minAgeHours,
                                            minWeeklyDownloads)
        /\ call' = [NoCall EXCEPT
                       !.comp = "popularity", !.pass = 1, !.at = now,
                       !.oracle = o, !.fetches = 1,
                       !.weeklyDownloads =
                           Filter_getWeeklyDownloads(o, minWeeklyDownloads),
                       !.blocked =
                           Filter_getWeeklyDownloads(o, minWeeklyDownloads)
                               < minWeeklyDownloads]
        /\ UNCHANGED <<minAgeHours, minWeeklyDownloads, now, packageInfo, gateVars>>

\* The host reads the same package again and calls part_002's
\* filter_metadata with its document a second time: getWeeklyDownloads
\* has nothing but the fetch, which it sends again.
FilterMetadataPopularityAgain ==
    \E o \in OracleOutcomes :
        /\ call.comp = "popularity"
        /\ call.fetches = 1
        /\ result' = Filter_filter_metadata(packageInfo, o, now, minAgeHours,
                                            minWeeklyDownloads)
        /\ call' = [call EXCEPT
                       !.prevAt = call.at, !.at = now,
                       !.prevOracle = call.oracle, !.oracle = o,
                       !.fetches = call.fetches + 1,
                       !.weeklyDownloads =
                           Filter_getWeeklyDownloads(o, minWeeklyDownloads),
                       !.blocked =
                           Filter_getWeeklyDownloads(o, minWeeklyDownloads)
                               < minWeeklyDownloads]
        /\ UNCHANGED <<minAgeHours, minWeeklyDownloads, now, packageInfo, gateVars>>

\* The host hands a document the filter returned to the filter again (a
\* cached copy it serves): part_003.
RefilterMetadataAge ==
    /\ call.comp = "age"
    /\ call.pass = 1
    /\ packageInfo' = result
    /\ result' = Filter_filterPackageMetadata(result, now, minAgeHours)
    /\ call' = [call EXCEPT !.pass = 2, !.prevAt = call.at, !.at = now]
    /\ UNCHANGED <<minAgeHours, minWeeklyDownloads, now, gateVars>>

\* DaycareMiddleware.filterPackageMetadata applied to a document (part_001).
MiddlewareFilter ==
    /\ call.comp = "none"
    /\ packageInfo # NoDoc
    /\ result' = Middleware_filterPackageMetadata(packageInfo, now, minAgeHours)
    /\ call' = [NoCall EXCEPT !.comp = "gate", !.pass = 1, !.at = now,
                              !.repointed = Repointed(packageInfo, result')]
    /\ UNCHANGED <<minAgeHours, minWeeklyDownloads, now, packageInfo, gateVars>>

\* ... and applied again to what it returned.
MiddlewareRefilter ==
    /\ call.comp = "gate"
    /\ call.pass = 1
    /\ packageInfo' = result
    /\ result' = Middleware_filterPackageMetadata(result, now, minAgeHours)
    /\ call' = [call EXCEPT !.pass = 2, !.prevAt = call.at, !.at = now]
    /\ UNCHANGED <<minAgeHours, minWeeklyDownloads, now, gateVars>>

\* The host hands the same document to filter_metadata once more, at the
\* clock value of that moment; the filter object has no field it could have
\* kept anything of the call before in.
FilterMetadataAgeAgain ==
    /\ call.comp = "age"
    /\ call.pass = 1
    /\ result' = Filter_filterPackageMetadata(packageInfo, now, minAgeHours)
    /\ call' = [call EXCEPT !.prevAt = call.at, !.at = now, !.again = TRUE,
                            !.repointed = Repointed(packageInfo, result')]
    /\ UNCHANGED <<minAgeHours, minWeeklyDownloads, now, packageInfo, gateVars>>

\* The gate filters the same fetched document once more (part_001).
MiddlewareFilterAgain ==
    /\ call.comp = "gate"
    /\ call.pass = 1
    /\ result' = Middleware_filterPackageMetadata(packageInfo, now, minAgeHours)
    /\ call' = [call EXCEPT !.prevAt = call.at, !.at = now, !.again = TRUE,
                            !.repointed = Repointed(packageInfo, result')]
    /\ UNCHANGED <<minAgeHours, minWeeklyDownloads, now, packageInfo, gateVars>>

\* Date.now() advances between two filter invocations.
TickHour ==
    /\ now + HOUR_MS <= MaxNowHour * HOUR_MS
    /\ now' = now + HOUR_MS
    /\ UNCHANGED <<minAgeHours, minWeeklyDownloads, filterVars, gateVars>>

(***************************************************************************)
(* DaycareMiddleware: the intercepted requests.                            *)
(***************************************************************************)
MaxClockTicks == 2      \* the gate clock advances this many half-TTLs

IdleRequest ==
    [pc |-> "idle",             \* idle | stats | upstream | done | host
     plugin |-> "none",         \* index (index.ts) | part1 (part_001)
     route |-> "none",          \* tarball | scoped_tarball | metadata | scoped_metadata
     packageName |-> <<>>,
     filename |-> <<>>,
     matched |-> FALSE,         \* versionMatch is not null
     version |-> <<>>,          \* versionMatch[1]
     oracle |-> NoOutcome,      \* the statistics endpoint's answer
     fromCache |-> FALSE,       \* the count came from downloadCache
     weeklyDownloads |-> -1,    \* what getWeeklyDownloads returned
     statsFetches |-> 0,        \* fetch() calls to the statistics endpoint
     upstream |-> "none",       \* how the direct metadata fetch ended
     responses |-> 0,           \* res.status(..).json(..) calls
     status |-> 0,
     body |-> "none",           \* rejection | empty_package | filtered
     error |-> <<>>,            \* the `error` field of a rejection
     reason |-> <<>>,           \* the `reason` field of a rejection
     doc |-> NoDoc,             \* the document of a metadata response
     nexts |-> 0]               \* next() calls

Slots == DOMAIN requests

SlotFree(s) == requests[s].pc = "idle"

Plugins == {"index", "part1"}
MetadataRoutes == {"metadata", "scoped_metadata"}
TarballRoutes == {"tarball", "scoped_tarball"}

\* Mutant: next() is never called and the handler does not finish.
NeverForward(r) == r

\* next()
Forward(r) == [r EXCEPT !.pc = "done", !.nexts = r.nexts + 1]

\* 'Version not found', word by word.
RejectionError == <<"Version", "not", "found">>

\* `Version ${version} is blocked by quarantine filter`: the parts of the
\* template string in order, the literal parts word by word and the
\* interpolated version character by character.
RejectionReason(version) ==
    << <<"Version">>, version, <<"is", "blocked", "by", "quarantine", "filter">> >>

\* res.status(404).json({ error: 'Version not found', reason: ... }); return
Reject(r) ==
    [r EXCEPT !.pc = "done", !.responses = r.responses + 1,
              !.status = 404, !.body = "rejection",
              !.error = RejectionError,
              !.reason = RejectionReason(r.version)]

\* Mutant: the handler does not answer and goes on to the upstream fetch.
FetchInsteadOfEmptyPackage(r) == [r EXCEPT !.pc = "upstream"]

\* res.status(200).json({ name: packageName, versions: {}, 'dist-tags': {} })
RespondEmptyPackage(r) ==
    [r EXCEPT !.pc = "done", !.responses = r.responses + 1,
              !.status = 200, !.body = "empty_package",
              !.doc = Doc(r.packageName, TRUE, <<>>, FALSE, NoTimes, TRUE, NoTags)]

\* Mutant: the handler answers and then falls through to next().
RespondFilteredAndForward(r, filtered) ==
    [r EXCEPT !.pc = "done", !.responses = r.responses + 1,
              !.nexts = r.nexts + 1,
              !.status = 200, !.body = "filtered", !.doc = filtered]

\* res.status(200).json(filtered)
RespondFiltered(r, filtered) ==
    [r EXCEPT !.pc = "done", !.responses = r.responses + 1,
              !.status = 200, !.body = "filtered", !.doc = filtered]

\* Mutant: the handler also rejects every version other than 0.0.1.
TarballDecisionByVersion(r, W) ==
    IF r.weeklyDownloads < W \/ r.version # <<"0", ".", "0", ".", "1">>
    THEN Reject(r) ELSE Forward(r)

\* Mutant: `<=` for `<`, so a count equal to the threshold is rejected.
TarballDecisionAtMost(r, W) ==
    IF r.weeklyDownloads <= W THEN Reject(r) ELSE Forward(r)

\* shouldBlockVersion once the count is known, and what the handler does
\* with its answer.
TarballDecision(r, W) ==
    IF r.weeklyDownloads < W THEN Reject(r) ELSE Forward(r)

\* A tarball handler, from the request to its first pending await.
TarballHandler(s, plugin, route, packageName, filename) ==
    LET m == VersionMatchOf[filename]
        r == [IdleRequest EXCEPT
                 !.plugin = plugin, !.route = route,
                 !.packageName = packageName, !.filename = filename,
                 !.matched = m.matched, !.version = m.version]
    IN  /\ SlotFree(s)
        /\ requests' = [requests EXCEPT ![s] =
              IF ~m.matched THEN Forward(r)
              ELSE IF isPackageAllowlisted(packageName) THEN Forward(r)
              ELSE IF plugin = "index" /\ CacheHit(downloadCache, packageName, now)
                   THEN TarballDecision(
                            [r EXCEPT !.fromCache = TRUE,
                                      !.weeklyDownloads =
                                          downloadCache[packageName].downloads],
                            minWeeklyDownloads)
              ELSE [r EXCEPT !.pc = "stats", !.statsFetches = 1]]
        /\ UNCHANGED <<minAgeHours, minWeeklyDownloads, now, downloadCache, filterVars>>

\* app.get('/:package/-/:filename', ...)
TarballRequest(s) ==
    \E plugin \in Plugins, package \in UnscopedPackages, filename \in Filenames :
        TarballHandler(s, plugin, "tarball", package, filename)

\* app.get('/:scope/:package/-/:filename', ...)
ScopedTarballRequest(s) ==
    \E plugin \in Plugins, scope \in Scopes, package \in ScopedPackages,
       filename \in Filenames :
        TarballHandler(s, plugin, "scoped_tarball", ScopedName(scope, package),
                       filename)

\* The metadata handlers: index.ts only logs and calls next(); part_001 runs
\* handleMetadataRequest to its first pending await.
MetadataHandler(s, plugin, route, packageName) ==
    LET r == [IdleRequest EXCEPT
                 !.plugin = plugin, !.route = route, !.packageName = packageName]
    IN  /\ SlotFree(s)
        /\ requests' = [requests EXCEPT ![s] =
              IF plugin = "index" THEN Forward(r)
              ELSE IF isPackageAllowlisted(packageName) THEN Forward(r)
              ELSE [r EXCEPT !.pc = "stats", !.statsFetches = 1]]
        /\ UNCHANGED <<minAgeHours, minWeeklyDownloads, now, downloadCache, filterVars>>

\* app.get('/:package', ...)
MetadataRequest(s) ==
    \E plugin \in Plugins, package \in UnscopedPackages :
        MetadataHandler(s, plugin, "metadata", package)

\* app.get('/:scope/:package', ...)
ScopedMetadataRequest(s) ==
    \E plugin \in Plugins, scope \in Scopes, package \in ScopedPackages :
        MetadataHandler(s, plugin, "scoped_metadata", ScopedName(scope, package))

\* The statistics endpoint answers (or the fetch fails): the rest of
\* getWeeklyDownloads, then the caller up to its next await or its end.
\* fetch() and response.json() are taken as one step: nothing shared is read
\* or written between them.
StatsRespond(s) ==
    \E o \in OracleOutcomes :
        LET r == requests[s]
            W == minWeeklyDownloads
            got == IF r.plugin = "index"
                   THEN Index_fetchWeeklyDownloads(o, W)
                   ELSE [downloads |-> Middleware_getWeeklyDownloads(o, W),
                         stored |-> FALSE]
            r1 == [r EXCEPT !.oracle = o, !.weeklyDownloads = got.downloads]
        IN  /\ r.pc = "stats"
            /\ downloadCache' =
                  IF got.stored
                  THEN CacheSet(downloadCache, r.packageName, got.downloads, now)
                  ELSE downloadCache
            /\ requests' = [requests EXCEPT ![s] =
                  IF r.route \in TarballRoutes THEN TarballDecision(r1, W)
                  ELSE IF got.downloads < W THEN RespondEmptyPackage(r1)
                  ELSE [r1 EXCEPT !.pc = "upstream"]]
            /\ UNCHANGED <<minAgeHours, minWeeklyDownloads, now, filterVars>>

\* Documents the registry (or the host's storage) holds for a name.
RegistryDocs(name) ==
    { Doc(name, TRUE, <<"2.0.0", "1.1.0">>, TRUE,
          [NoTimes EXCEPT !["created"] = IsoTs(0), !["1.1.0"] = IsoTs(0),
                          !["2.0.0"] = IsoTs(HOUR_MS)],
          TRUE, [NoTags EXCEPT !["latest"] = "2.0.0"]),
      Doc(name, TRUE, <<"2.0.0">>, FALSE, NoTimes,
          TRUE, [NoTags EXCEPT !["latest"] = "2.0.0"]),
      Doc(name, TRUE, <<"2.0.0", "1.1.0", InvalidVersion>>, TRUE,
          [NoTimes EXCEPT !["1.1.0"] = IsoTs(0), ![InvalidVersion] = IsoTs(0),
                          !["2.0.0"] = IsoTs(HOUR_MS)],
          TRUE, [NoTags EXCEPT !["latest"] = "2.0.0"]) }

\* fetchPackageMetadata: null on a rejected fetch, a non-ok status or an
\* unparsable body, else the parsed document.
UpstreamOutcomes == {"network_error", "http_error", "unparsable", "ok"}

\* Mutant: `response.ok` is not looked at, only a rejected fetch fails.
ReturnsNullOnRejectOnly(u) == u = "network_error"

\* fetchPackageMetadata returned null.
ReturnsNull(u) == u # "ok"

\* The registry answers the direct metadata fetch of handleMetadataRequest.
UpstreamRespond(s) ==
    \E u \in UpstreamOutcomes :
        \E upstream \in IF u = "ok" THEN RegistryDocs(requests[s].packageName)
                        ELSE {NoDoc} :
            LET r == [requests[s] EXCEPT !.upstream = u]
            IN  /\ requests[s].pc = "upstream"
                /\ requests' = [requests EXCEPT ![s] =
                      IF ReturnsNull(u) THEN Forward(r)
                      ELSE IF Middleware_filterThrows(upstream, now, minAgeHours)
                           THEN Forward(r)      \* catch (error): return next()
                      ELSE RespondFiltered(r,
                              Middleware_filterPackageMetadata(upstream, now,
                                                               minAgeHours))]
                /\ UNCHANGED <<minAgeHours, minWeeklyDownloads, now,
                               downloadCache, filterVars>>

\* After next() on a metadata route the gate is done with the request (pc
\* "host", what the gate learnt on the way dropped): the host produces the package's document and hands it to the filter plugin.
\* The host's lookup is not the repository's code: it may use the requested
\* name or the name without the override marker.
HostLoadsMetadata(s) ==
    LET r == requests[s]
    IN  /\ r.pc = "done"
        /\ r.route \in MetadataRoutes
        /\ r.nexts = 1
        /\ r.responses = 0
        /\ packageInfo = NoDoc
        /\ \E name \in {r.packageName,
                        IF StartsWithForce(r.packageName)
                        THEN Tail(r.packageName) ELSE r.packageName} :
              packageInfo' \in RegistryDocs(name)
        /\ requests' = [requests EXCEPT ![s] =
              [IdleRequest EXCEPT !.pc = "host", !.plugin = r.plugin,
                                  !.route = r.route,
                                  !.packageName = r.packageName,
                                  !.nexts = r.nexts]]
        /\ UNCHANGED <<minAgeHours, minWeeklyDownloads, now, result, call,
                       downloadCache>>

\* The request is over (the response was sent, or the host finished what it
\* does after next()), and the slot takes the next request.
RequestEnds(s) ==
    /\ requests[s].pc \in {"done", "host"}
    /\ requests' = [requests EXCEPT ![s] = IdleRequest]
    /\ packageInfo' = NoDoc
    /\ result' = NoDoc
    /\ call' = NoCall
    /\ UNCHANGED <<minAgeHours, minWeeklyDownloads, now, downloadCache>>

\* Date.now() advances between two steps of the gate.
TickMs ==
    /\ now + CACHE_TTL \div 2
          <= MaxNowHour * HOUR_MS + MaxClockTicks * (CACHE_TTL \div 2)
    /\ now' = now + CACHE_TTL \div 2
    /\ UNCHANGED <<minAgeHours, minWeeklyDownloads, filterVars, gateVars>>

(***************************************************************************)
(* Specifications.                                                         *)
(***************************************************************************)
\* The gate: requests arrive one after the other at either revision of the
\* middleware; forwarded metadata requests reach the filter plugin.
Init ==
    /\ minAgeHours \in 0..MaxAgeHours
    /\ minWeeklyDownloads \in 0..MaxThreshold
    /\ now = MaxNowHour * HOUR_MS
    /\ packageInfo = NoDoc
    /\ result = NoDoc
    /\ call = NoCall
    /\ downloadCache = EmptyCache
    /\ requests = <<IdleRequest>>

Next ==
    \/ \E s \in Slots : TarballRequest(s)
    \/ \E s \in Slots : ScopedTarballRequest(s)
    \/ \E s \in Slots : MetadataRequest(s)
    \/ \E s \in Slots : ScopedMetadataRequest(s)
    \/ \E s \in Slots : StatsRespond(s)
    \/ \E s \in Slots : UpstreamRespond(s)
    \/ \E s \in Slots : HostLoadsMetadata(s)
    \/ \E s \in Slots : RequestEnds(s)
    \/ FilterMetadataAge
    \/ FilterMetadataPopularity
    \/ TickMs

Spec == Init /\ [][Next]_vars

\* The gate with external calls that complete: a fetch the handler awaits
\* is answered or fails, after which the event loop resumes the handler.
LiveSpec ==
    /\ Init
    /\ [][Next]_vars
    /\ \A s \in {1} : WF_vars(StatsRespond(s)) /\ WF_vars(UpstreamRespond(s))

\* Two tarball requests in flight at once: the handlers are async, so a
\* second one starts while the first awaits the statistics endpoint, and
\* the answers come back in either order.
RaceInit ==
    /\ minAgeHours \in 0..MaxAgeHours
    /\ minWeeklyDownloads \in 0..MaxThreshold
    /\ now = HOUR_MS
    /\ packageInfo = NoDoc
    /\ result = NoDoc
    /\ call = NoCall
    /\ downloadCache = EmptyCache
    /\ requests = <<IdleRequest, IdleRequest>>

RaceNext ==
    \/ \E s \in Slots : TarballRequest(s)
    \/ \E s \in Slots : StatsRespond(s)
    \/ \E s \in Slots : RequestEnds(s)

RaceSpec == RaceInit /\ [][RaceNext]_vars

\* The filters as functions of a document: the host hands any document to a
\* filter, at any threshold and clock value.
FilterDocs == DocsNamed(<<"left-pad">>)

FilterInit ==
    /\ minAgeHours \in 0..MaxAgeHours
    /\ minWeeklyDownloads = MaxThreshold
    /\ now = 0
    /\ packageInfo \in FilterDocs
    /\ result = NoDoc
    /\ call = NoCall
    /\ downloadCache = EmptyCache
    /\ requests = <<IdleRequest>>

FilterNext ==
    \/ FilterMetadataAge
    \/ RefilterMetadataAge
    \/ FilterMetadataPopularity
    \/ MiddlewareFilter
    \/ MiddlewareRefilter
    \/ TickHour

FilterSpec == FilterInit /\ [][FilterNext]_vars

\* One document filtered time and again while the clock advances.
ClockNext ==
    \/ FilterMetadataAge
    \/ FilterMetadataAgeAgain
    \/ MiddlewareFilter
    \/ MiddlewareFilterAgain
    \/ TickHour

ClockSpec == FilterInit /\ [][ClockNext]_vars

\* The host reads one package time and again and calls part_002's
\* filter_metadata at each read, minutes apart.
HostReadsInit ==
    /\ minAgeHours \in 0..MaxAgeHours
    /\ minWeeklyDownloads \in 0..MaxThreshold
    /\ now = MaxNowHour * HOUR_MS
    /\ packageInfo \in UNION {RegistryDocs(name) : name \in AllPackageNames}
    /\ result = NoDoc
    /\ call = NoCall
    /\ downloadCache = EmptyCache
    /\ requests = <<IdleRequest>>

HostReadsNext ==
    \/ FilterMetadataPopularity
    \/ FilterMetadataPopularityAgain
    \/ TickMs

HostReadsSpec == HostReadsInit /\ [][HostReadsNext]_vars

(***************************************************************************)
(* Properties of the filters (FilterSpec).                                 *)
(***************************************************************************)
\* The first call of a filter on the host's document: packageInfo is the
\* input, result the output.
FirstPass(comps) == call.comp \in comps /\ call.pass = 1

Listed(doc) == Range(doc.versions)

\* No dist-tag of `doc` points outside its versions.
NoDanglingTag(doc) ==
    \A t \in TagNames : doc.tags[t] # NoTag => doc.tags[t] \in Listed(doc)

\* C1: for a document with a time map, the age filter's output holds no
\* version whose age now - publishedAt is at most minAgeHours hours, neither
\* under versions nor as the value of a dist-tag, and holds every version
\* with a timestamp whose age is strictly above minAgeHours; a version
\* published exactly minAgeHours ago is hidden.
C1_AgeGate ==
    (FirstPass({"age", "gate"}) /\ packageInfo.hasTime) =>
        \A v \in Listed(packageInfo) :
            LET ts == packageInfo.time[v]
            IN  ts.kind = "iso" =>
                  /\ call.at - ts.ms <= minAgeHours * HOUR_MS =>
                        /\ v \notin Listed(result)
                        /\ \A t \in TagNames : result.tags[t] # v
                  /\ call.at - ts.ms > minAgeHours * HOUR_MS =>
                        v \in Listed(result)

\* A version exactly minAgeHours old was hidden while a strictly older one
\* was kept.
C1_Witness ==
    /\ FirstPass({"age"})
    /\ packageInfo.hasTime
    /\ \E v, w \in Listed(packageInfo) :
          /\ packageInfo.time[v].kind = "iso"
          /\ packageInfo.time[w].kind = "iso"
          /\ call.at - packageInfo.time[v].ms = minAgeHours * HOUR_MS
          /\ call.at - packageInfo.time[w].ms > minAgeHours * HOUR_MS
          /\ v \notin Listed(result)
          /\ w \in Listed(result)

\* C2 as stated: for every input document, every dist-tag value of the
\* filter's output is a key of the output's versions.
C2_Original ==
    FirstPass({"age", "popularity"}) => NoDanglingTag(result)

\* C2 amended: when the input has a time map or was emptied by the popularity
\* check, every dist-tag value of the output is a key of the output's
\* versions; an input without a time map that passes the popularity check is
\* returned as it came, dangling tags included.
C2_NoDanglingTag ==
    FirstPass({"age", "popularity"}) =>
        IF packageInfo.hasTime \/ call.blocked
        THEN NoDanglingTag(result)
        ELSE result = packageInfo

\* An input with a time map and a tag pointing at a version it does not
\* list was filtered, and versions survived.
C2_Witness ==
    /\ FirstPass({"age", "popularity"})
    /\ packageInfo.hasTime
    /\ ~call.blocked
    /\ ~NoDanglingTag(packageInfo)
    /\ result.versions # <<>>

\* C6 as stated, for documents with a time map: when the input's `latest`
\* does not survive, the output has no `latest` (and then no version
\* survived) or its `latest` is a surviving version with the greatest
\* publish timestamp; for the filter plugin and for the gate's own filter.
C6_LatestIsNewestSurvivor ==
    ( /\ FirstPass({"age", "popularity", "gate"})
      /\ ~call.blocked
      /\ packageInfo.hasTime /\ packageInfo.hasVersions
      /\ packageInfo.tags["latest"] # NoTag
      /\ packageInfo.tags["latest"] \notin Listed(result) ) =>
        IF result.versions = <<>> THEN result.tags["latest"] = NoTag
        ELSE /\ result.tags["latest"] \in Listed(result)
             /\ \A w \in Listed(result) :
                   packageInfo.time[w].ms
                       <= packageInfo.time[result.tags["latest"]].ms

\* C7: filtering is idempotent: at the same threshold and clock value, the
\* filter applied to its own output returns that output, in versions,
\* dist-tags and time.
C7_Idempotent ==
    (call.pass = 2 /\ call.at = call.prevAt) =>
        /\ result.hasVersions = packageInfo.hasVersions
        /\ result.versions = packageInfo.versions
        /\ result.hasTags = packageInfo.hasTags
        /\ result.tags = packageInfo.tags
        /\ result.hasTime = packageInfo.hasTime
        /\ result.time = packageInfo.time

\* The filter ran again, at the same clock value, on an output in which it
\* had moved `latest`.
C7_Witness ==
    /\ call.pass = 2
    /\ call.at = call.prevAt
    /\ call.repointed
    /\ result.versions # <<>>

\* C8: the age policy fails closed: in a document with a time map, a
\* version whose timestamp is missing, is the empty string or cannot be
\* parsed is never among the filtered versions, at any threshold and clock
\* value.
C8_FailsClosed ==
    (FirstPass({"age", "popularity", "gate"}) /\ packageInfo.hasTime) =>
        \A v \in Listed(packageInfo) :
            packageInfo.time[v].kind \in {"missing", "empty", "bad"} =>
                v \notin Listed(result)

\* A version with an unparsable timestamp was dropped at a clock value at
\* which a version published at the epoch passes, and another was kept.
C8_Witness ==
    /\ FirstPass({"age"})
    /\ packageInfo.hasTime
    /\ call.at > minAgeHours * HOUR_MS
    /\ \E v \in Listed(packageInfo) :
          /\ packageInfo.time[v].kind = "bad"
          /\ v \notin Listed(result)
    /\ result.versions # <<>>

(***************************************************************************)
(* Properties of the gate (Spec).                                          *)
(***************************************************************************)
\* The gate called next() once and wrote no response.
Forwarded(r) == r.nexts = 1 /\ r.responses = 0

\* The statistics query failed with a network error or a non-success status
\* other than 404.
QueryFailed(o) ==
    \/ o.kind = "network_error"
    \/ o.kind = "http_error" /\ o.status # 404

\* C3: a request whose package name starts with `@force:` is forwarded by
\* the tarball gate and by the metadata gate, which never answers it with
\* the empty-package document; the statistics endpoint is not even asked.
C3_OverrideForwarded ==
    \A s \in Slots :
        LET r == requests[s]
        IN  (r.pc # "idle" /\ StartsWithForce(r.packageName)) =>
                /\ r.pc \in {"done", "host"}
                /\ Forwarded(r)
                /\ r.body # "empty_package"
                /\ r.statsFetches = 0

\* A tarball request with a versioned filename for an overridden name was
\* forwarded although a threshold is set.
C3_Witness ==
    \E s \in Slots :
        LET r == requests[s]
        IN  /\ StartsWithForce(r.packageName)
            /\ r.route \in TarballRoutes
            /\ r.matched
            /\ minWeeklyDownloads > 0
            /\ r.pc = "done"
            /\ Forwarded(r)

\* C4: when the statistics query fails with a network error or a
\* non-success status other than 404, the count is taken to be the
\* threshold: the tarball gate forwards, the metadata gate does not answer
\* with the empty-package document, and the metadata filter returns what the
\* age filter returns, not the emptied document; at every threshold.
C4_OracleFailsOpen ==
    /\ \A s \in Slots :
          LET r == requests[s]
          IN  QueryFailed(r.oracle) =>
                /\ r.weeklyDownloads >= minWeeklyDownloads
                /\ r.route \in TarballRoutes => r.pc = "done" /\ Forwarded(r)
                /\ r.route \in MetadataRoutes =>
                      /\ r.pc \in {"upstream", "done"}
                      /\ r.body # "empty_package"
    /\ (call.comp = "popularity" /\ QueryFailed(call.oracle)) =>
          /\ ~call.blocked
          /\ result = Filter_filterPackageMetadata(packageInfo, call.at,
                                                   minAgeHours)

\* The statistics endpoint answered 500 to a tarball request at a positive
\* threshold, and the request was forwarded.
C4_Witness ==
    \E s \in Slots :
        LET r == requests[s]
        IN  /\ r.oracle = HttpError(500)
            /\ r.route \in TarballRoutes
            /\ r.plugin = "index"
            /\ minWeeklyDownloads > 0
            /\ r.pc = "done"
            /\ Forwarded(r)

\* C5: a tarball request whose filename yields a version and whose package
\* is neither allowlisted nor overridden ends with a 404 rejection and no
\* next() when the weekly count is strictly below the threshold, and with
\* next() and no response when the count is at or above it; the count is
\* the one the statistics endpoint reported when it reported one.
C5_TarballThreshold ==
    \A s \in Slots :
        LET r == requests[s]
        IN  ( /\ r.route \in TarballRoutes
              /\ r.matched
              /\ ~StartsWithForce(r.packageName)
              /\ r.packageName \notin allowlistPackages
              /\ r.pc = "done" ) =>
                /\ r.weeklyDownloads >= 0
                /\ r.oracle.kind = "ok" => r.weeklyDownloads = r.oracle.downloads
                /\ r.weeklyDownloads < minWeeklyDownloads =>
                      /\ r.responses = 1
                      /\ r.status = 404
                      /\ r.body = "rejection"
                      /\ r.nexts = 0
                /\ r.weeklyDownloads >= minWeeklyDownloads => Forwarded(r)

\* The statistics endpoint reported a count equal to a positive threshold
\* and the tarball request was forwarded.
C5_Witness ==
    \E s \in Slots :
        LET r == requests[s]
        IN  /\ r.route \in TarballRoutes
            /\ r.matched
            /\ ~StartsWithForce(r.packageName)
            /\ r.oracle.kind = "ok"
            /\ minWeeklyDownloads > 0
            /\ r.oracle.downloads = minWeeklyDownloads
            /\ r.pc = "done"
            /\ Forwarded(r)

\* A filename that cannot match the pattern whatever the version syntax:
\* it does not end in ".tgz", or no "-" in it is followed by a digit.
NoVersionShape(filename) ==
    \/ ~EndsWithTgz(filename)
    \/ \A i \in 1..(Len(filename) - 1) :
          ~(filename[i] = "-" /\ filename[i + 1] \in Digits)

\* C9: a tarball request whose filename does not match the
\* <name>-<version>.tgz pattern is forwarded unchanged: next() is called, no
\* response is written, and no download count is looked up for it.
C9_UnparsedFilenameForwarded ==
    \A s \in Slots :
        LET r == requests[s]
        IN  ( /\ r.route \in TarballRoutes
              /\ r.pc # "idle"
              /\ ~r.matched \/ NoVersionShape(r.filename) ) =>
                /\ r.pc = "done"
                /\ Forwarded(r)
                /\ r.statsFetches = 0
                /\ r.weeklyDownloads = -1

\* A request for README.txt of a package whose cached count is below the
\* threshold was forwarded.
C9_Witness ==
    \E s \in Slots :
        LET r == requests[s]
        IN  /\ r.route \in TarballRoutes
            /\ r.plugin = "index"
            /\ NoVersionShape(r.filename)
            /\ ~r.matched
            /\ CacheHit(downloadCache, r.packageName, now)
            /\ downloadCache[r.packageName].downloads < minWeeklyDownloads
            /\ r.pc = "done"
            /\ Forwarded(r)

\* C10 as stated: for a name that is allowlisted or carries the override
\* marker, the metadata filter skips its popularity check as the tarball
\* gate does: the gate forwards the request, and the filter the host then
\* calls for it does not return the emptied document.
C10_BypassIdentical ==
    \A s \in Slots :
        LET r == requests[s]
        IN  isPackageAllowlisted(r.packageName) =>
                /\ r.route \in TarballRoutes => r.pc = "done" /\ Forwarded(r)
                /\ (r.pc = "host" /\ call.comp = "popularity") => ~call.blocked

\* The step in which slot s takes a request that makes index.ts call
\* getWeeklyDownloads: a tarball with a versioned filename for a name that
\* is not allowlisted.
CallsGetWeeklyDownloads(s) ==
    /\ requests[s].pc = "idle"
    /\ requests'[s].pc # "idle"
    /\ requests'[s].plugin = "index"
    /\ requests'[s].route \in TarballRoutes
    /\ requests'[s].matched
    /\ ~isPackageAllowlisted(requests'[s].packageName)

\* The step in which the statistics endpoint answers slot s of index.ts with
\* a success status and a parsable body.
QuerySucceeds(s) ==
    /\ requests[s].pc = "stats"
    /\ requests[s].plugin = "index"
    /\ requests'[s].pc # "stats"
    /\ requests'[s].oracle.kind \in {"ok", "ok_no_downloads"}

\* C11: a successful query stores the count under the package name with the
\* clock value t of that moment; a later getWeeklyDownloads call for the
\* name at a clock value strictly below t + CACHE_TTL (5 minutes) returns the
\* stored count and sends no request to the statistics endpoint, and a call
\* at or after t + CACHE_TTL sends one.
C11_CacheWindow ==
    [][\A s \in Slots :
          /\ QuerySucceeds(s) =>
                downloadCache'[requests[s].packageName] =
                    [has |-> TRUE,
                     downloads |-> requests'[s].weeklyDownloads,
                     timestamp |-> now]
          /\ CallsGetWeeklyDownloads(s) =>
                LET r == requests'[s]
                    cached == downloadCache[r.packageName]
                IN  IF cached.has /\ now < cached.timestamp + 5 * 60 * 1000
                    THEN /\ r.fromCache
                         /\ r.weeklyDownloads = cached.downloads
                         /\ r.statsFetches = 0
                         /\ r.pc = "done"
                    ELSE /\ ~r.fromCache
                         /\ r.statsFetches = 1
                         /\ r.pc = "stats"]_vars

\* A request waits for the statistics endpoint although a count is stored
\* for its name: the entry was exactly CACHE_TTL old when the request came.
C11_Witness ==
    \E s \in Slots :
        LET r == requests[s]
        IN  /\ r.pc = "stats"
            /\ r.plugin = "index"
            /\ downloadCache[r.packageName].has
            /\ now - downloadCache[r.packageName].timestamp = 5 * 60 * 1000

\* The gate answered with the 404 rejection and did not call next().
Rejected(r) ==
    r.responses = 1 /\ r.status = 404 /\ r.body = "rejection" /\ r.nexts = 0

\* C12: when the statistics endpoint answers 404, getWeeklyDownloads
\* returns 0 (nothing is stored): at a threshold above 0 the tarball gate
\* rejects, the metadata gate answers with the empty-package document and
\* the filter returns the emptied document; at threshold 0 all three let
\* the package pass.
C12_NotFoundIsZero ==
    /\ \A s \in Slots :
          LET r == requests[s]
          IN  r.oracle = HttpError(404) =>
                /\ r.weeklyDownloads = 0
                /\ ~r.fromCache
                /\ r.route \in TarballRoutes =>
                      /\ r.pc = "done"
                      /\ minWeeklyDownloads > 0 => Rejected(r)
                      /\ minWeeklyDownloads = 0 => Forwarded(r)
                /\ r.route \in MetadataRoutes =>
                      /\ minWeeklyDownloads > 0 =>
                            r.pc = "done" /\ r.body = "empty_package"
                      /\ minWeeklyDownloads = 0 => r.body # "empty_package"
    /\ (call.comp = "popularity" /\ call.oracle = HttpError(404)) =>
          /\ call.weeklyDownloads = 0
          /\ call.blocked <=> minWeeklyDownloads > 0

\* The endpoint answered 404 to a tarball request of index.ts at a positive
\* threshold, the request was rejected and no count was stored for the name.
C12_Witness ==
    \E s \in Slots :
        LET r == requests[s]
        IN  /\ r.oracle = HttpError(404)
            /\ r.plugin = "index"
            /\ r.route \in TarballRoutes
            /\ minWeeklyDownloads > 0
            /\ Rejected(r)
            /\ ~downloadCache[r.packageName].has

\* C13: a metadata request to the metadata gate for a package that is not
\* allowlisted and whose weekly count is below the threshold is answered at
\* once with a document of that name whose versions and dist-tags are
\* empty; the registry is not asked for the metadata and next() is not
\* called.
C13_EmptyPackageAnswer ==
    \A s \in Slots :
        LET r == requests[s]
        IN  ( /\ r.plugin = "part1"
              /\ r.route \in MetadataRoutes
              /\ ~isPackageAllowlisted(r.packageName)
              /\ r.weeklyDownloads >= 0
              /\ r.weeklyDownloads < minWeeklyDownloads ) =>
                /\ r.pc = "done"
                /\ r.responses = 1
                /\ r.status = 200
                /\ r.body = "empty_package"
                /\ r.doc.name = r.packageName
                /\ r.doc.hasVersions /\ r.doc.versions = <<>>
                /\ r.doc.hasTags /\ r.doc.tags = NoTags
                /\ r.upstream = "none"
                /\ r.nexts = 0

\* The endpoint reported a count below the threshold for a metadata request
\* and the gate answered with the empty-package document.
C13_Witness ==
    \E s \in Slots :
        LET r == requests[s]
        IN  /\ r.plugin = "part1"
            /\ r.route \in MetadataRoutes
            /\ r.oracle.kind = "ok"
            /\ r.oracle.downloads < minWeeklyDownloads
            /\ r.body = "empty_package"
            /\ r.nexts = 0

\* C14: when the metadata gate's own fetch of the metadata fails, by a
\* network error or a non-success status, for a package that passed the
\* popularity check, the gate writes no response and calls next().
C14_UpstreamFailureForwards ==
    \A s \in Slots :
        LET r == requests[s]
        IN  r.upstream \in {"network_error", "http_error"} =>
                /\ r.weeklyDownloads >= minWeeklyDownloads
                /\ r.pc = "done"
                /\ Forwarded(r)
                /\ r.body = "none"

\* The registry answered the gate's fetch with a non-success status at a
\* positive threshold, and the request was forwarded.
C14_Witness ==
    \E s \in Slots :
        LET r == requests[s]
        IN  /\ r.upstream = "http_error"
            /\ r.route \in MetadataRoutes
            /\ minWeeklyDownloads > 0
            /\ r.oracle.kind = "ok"
            /\ Forwarded(r)

\* C15 as stated: whenever the filter plugin returns the minimal document,
\* because the count is below the popularity threshold or because no version
\* survives the age filter, the output keeps the input's name, has empty
\* versions and dist-tags, and its time map has no key other than `created`
\* and `modified`.
C15_MinimalDocument ==
    ( /\ FirstPass({"age", "popularity"})
      /\ \/ call.blocked
         \/ /\ packageInfo.hasTime
            /\ Filter_allowedVersionsList(packageInfo, call.at, minAgeHours)
                   = <<>> ) =>
        /\ result.name = packageInfo.name
        /\ result.versions = <<>>
        /\ result.tags = NoTags
        /\ \A k \in VersionUniverse : result.time[k] = MissingTs

\* C16: in every filtered output with at least one surviving version, the
\* time map holds exactly the surviving versions' timestamps and those of
\* `created` and `modified` that the input held, each with the input's
\* value: every output version has a time entry and no removed version's
\* timestamp remains. For the filter plugin and for the gate's own filter.
C16_TimeMatchesSurvivors ==
    ( /\ FirstPass({"age", "popularity", "gate"})
      /\ ~call.blocked
      /\ packageInfo.hasTime
      /\ result.versions # <<>> ) =>
        \A k \in TimeKeys :
            /\ result.time[k] # MissingTs <=>
                  \/ k \in Listed(result)
                  \/ k \in ReservedTimeKeys /\ packageInfo.time[k] # MissingTs
            /\ result.time[k] # MissingTs => result.time[k] = packageInfo.time[k]

\* One version survived, another with a timestamp was removed, and the
\* input held `created`.
C16_Witness ==
    /\ FirstPass({"age", "gate"})
    /\ packageInfo.hasTime
    /\ packageInfo.time["created"] # MissingTs
    /\ result.versions # <<>>
    /\ \E v \in Listed(packageInfo) :
          /\ v \notin Listed(result)
          /\ packageInfo.time[v].kind = "iso"
          /\ result.time[v] = MissingTs

\* C17 as stated: a document without a time map is returned unchanged, in
\* versions, dist-tags and every other field, whatever the popularity check
\* would say; for the filter plugin, with and without the popularity check,
\* and for the gate's own filter.
C17_NoTimeMapPassThrough ==
    (FirstPass({"age", "popularity", "gate"}) /\ ~packageInfo.hasTime) =>
        result = packageInfo

\* Words by which a reason would name the popularity policy.
PopularityWords == {"popularity", "popular", "downloads", "weekly", "threshold"}

\* A part of the reason is exactly `text`.
ReasonNames(reason, text) == \E i \in 1..Len(reason) : reason[i] = text

\* C18 as stated: every rejection the tarball gate writes has status 404
\* and a body whose `error` is a fixed string and whose `reason` names the
\* package, the version parsed from the filename and the popularity policy.
C18_RejectionContract ==
    \A s \in Slots :
        LET r == requests[s]
        IN  r.body = "rejection" =>
                /\ r.status = 404
                /\ r.error = <<"Version", "not", "found">>
                /\ ReasonNames(r.reason, r.version)
                /\ ReasonNames(r.reason, r.packageName)
                /\ \E i \in 1..Len(r.reason) :
                      \E j \in 1..Len(r.reason[i]) :
                          r.reason[i][j] \in PopularityWords

\* The statistics endpoint answered with a success status and a body that
\* cannot be parsed or that carries no `downloads`.
MalformedBody(o) == o.kind \in {"ok_unparsable", "ok_no_downloads"}

\* C19 as stated: when the statistics endpoint answers with a success status
\* and a malformed body, getWeeklyDownloads returns the configured
\* threshold, so the package is not blocked: the tarball gate forwards, the
\* metadata gate does not answer with the empty-package document and the
\* filter does not return the emptied document.
C19_MalformedBodyFailsOpen ==
    /\ \A s \in Slots :
          LET r == requests[s]
          IN  MalformedBody(r.oracle) =>
                /\ r.weeklyDownloads = minWeeklyDownloads
                /\ r.route \in TarballRoutes => r.pc = "done" /\ Forwarded(r)
                /\ r.route \in MetadataRoutes => r.body # "empty_package"
    /\ (call.comp = "popularity" /\ MalformedBody(call.oracle)) =>
          /\ call.weeklyDownloads = minWeeklyDownloads
          /\ ~call.blocked

\* C20 as stated: the filter's getWeeklyDownloads keeps the count of a
\* successful answer for CACHE_TTL: of two filter_metadata calls for the
\* same package less than CACHE_TTL apart, the first of which got a
\* successful answer, only the first sends a request to the statistics
\* endpoint.
C20_FilterUsesCache ==
    ( /\ call.comp = "popularity"
      /\ call.prevOracle.kind = "ok"
      /\ call.at - call.prevAt < 5 * 60 * 1000 ) =>
        /\ call.fetches = 1
        /\ call.weeklyDownloads = call.prevOracle.downloads

\* C21: every intercepted request ends in exactly one outcome: the gate
\* wrote one response (the 404 rejection, the empty-package document or the
\* filtered document) or it called next() once; on no path, the catch
\* blocks included, does it do both or call next() twice, and while it
\* waits for the statistics endpoint or the registry it has done neither.
C21_OneOutcome ==
    \A s \in Slots :
        LET r == requests[s]
        IN  /\ r.nexts + r.responses <= 1
            /\ r.pc \in {"done", "host"} => r.nexts + r.responses = 1
            /\ r.pc \in {"idle", "stats", "upstream"} =>
                  r.nexts + r.responses = 0
            /\ r.responses = 1 <=>
                  r.body \in {"rejection", "empty_package", "filtered"}

\* The gate's filter threw on the fetched document, the catch block called
\* next(), and no response had been written.
C21_Witness ==
    \E s \in Slots :
        LET r == requests[s]
        IN  /\ r.pc = "done"
            /\ r.upstream = "ok"
            /\ r.nexts = 1
            /\ r.responses = 0

\* C22: every intercepted request reaches an outcome: once the handler
\* waits for the statistics endpoint or for the registry, whatever either
\* answers (a count, 404, an error status, a malformed body, a rejected
\* fetch), the request ends forwarded or answered; no failure of an external
\* call leaves it pending.
C22_EventuallyOutcome ==
    (requests[1].pc \in {"stats", "upstream"}) ~> (requests[1].pc = "done")

\* A request whose statistics query was rejected and whose metadata fetch
\* then failed as well has ended, forwarded.
C22_Witness ==
    /\ requests[1].pc = "done"
    /\ requests[1].oracle = NetworkError
    /\ requests[1].upstream = "network_error"
    /\ Forwarded(requests[1])

\* Request s asked the statistics endpoint for its package (a cache miss)
\* and the endpoint's answer was written to the cache.
Wrote(s) ==
    /\ requests[s].pc = "done"
    /\ requests[s].plugin = "index"
    /\ ~requests[s].fromCache
    /\ requests[s].statsFetches = 1
    /\ requests[s].oracle.kind \in {"ok", "ok_no_downloads"}

\* Requests s and t are two different requests for one package name that
\* both missed the cache; the clock of RaceSpec stands still, so t missed
\* only because it started before s's answer was stored.
Racing(s, t) ==
    /\ s # t
    /\ requests[t].plugin = "index"
    /\ requests[t].packageName = requests[s].packageName
    /\ requests[t].pc \in {"stats", "done"}
    /\ ~requests[t].fromCache
    /\ requests[t].statsFetches = 1

\* C23 as stated: of concurrent requests for one package name that all miss
\* the cache, every writer stores the same count, so the entry left after
\* the race is the same whichever call completed last.
C23_Original ==
    \A s, t \in Slots :
        (Wrote(s) /\ Wrote(t) /\ Racing(s, t)) =>
            /\ requests[s].weeklyDownloads = requests[t].weeklyDownloads
            /\ downloadCache[requests[s].packageName].downloads =
                   requests[s].weeklyDownloads

\* C23 amended: each of the racing writers stores the count of its own
\* answer over whatever is there (the last writer wins); the entry after the
\* race is independent of the completion order only when the endpoint gave
\* the writers the same count, and then the later write leaves the count as
\* it was.
C23_LastWriterWins ==
    [][\A s, t \in Slots :
          (QuerySucceeds(s) /\ Racing(s, t)) =>
              /\ downloadCache'[requests[s].packageName].has
              /\ downloadCache'[requests[s].packageName].downloads =
                     requests'[s].weeklyDownloads
              /\ (Wrote(t) /\ requests[t].weeklyDownloads =
                                  requests'[s].weeklyDownloads) =>
                     downloadCache'[requests[s].packageName].downloads =
                         downloadCache[requests[s].packageName].downloads]_vars

\* Two racing requests have both written, the endpoint gave them different
\* counts, and the cache holds one of the two.
C23_Witness ==
    \E s, t \in Slots :
        /\ Wrote(s) /\ Wrote(t) /\ Racing(s, t)
        /\ requests[s].weeklyDownloads # requests[t].weeklyDownloads
        /\ downloadCache[requests[s].packageName].downloads =
               requests[s].weeklyDownloads

\* What a finished handler did with its request: next() or the response.
Outcome(r) ==
    [nexts |-> r.nexts, responses |-> r.responses,
     status |-> r.status, body |-> r.body]

\* The version string spelled by the characters a filename's match captured.
VersionName(chars) ==
    CASE chars = <<"2", ".", "0", ".", "0">> -> "2.0.0"
      [] chars = <<"1", ".", "1", ".", "0">> -> "1.1.0"
      [] OTHER -> UnlistedVersion

\* The registry lists the requested version with a publish time that is not
\* yet minAgeHours old.
YoungerThanMinAge(r) ==
    \E doc \in RegistryDocs(r.packageName) :
        LET v == VersionName(r.version)
        IN  /\ v \in Listed(doc)
            /\ doc.hasTime
            /\ Truthy(doc.time[v])
            /\ ~isVersionOldEnough(doc.time[v], now, minAgeHours)

\* A finished tarball request whose filename gave a version.
GatedTarball(r) ==
    r.pc = "done" /\ r.route \in TarballRoutes /\ r.matched

\* C24: the tarball gate's decision does not depend on the requested version
\* or its publish age: two tarball requests for the same package that got
\* the same count get the same outcome whatever versions their filenames
\* name, and a version younger than minAgeHours of a package whose count
\* meets the threshold is forwarded.
C24_VersionBlind ==
    /\ \A s, t \in Slots :
          LET a == requests[s]
              b == requests[t]
          IN  (/\ GatedTarball(a) /\ GatedTarball(b)
               /\ a.packageName = b.packageName
               /\ a.weeklyDownloads = b.weeklyDownloads) =>
                   Outcome(a) = Outcome(b)
    /\ \A s \in Slots :
          LET r == requests[s]
          IN  (/\ GatedTarball(r)
               /\ r.weeklyDownloads >= minWeeklyDownloads
               /\ YoungerThanMinAge(r)) => Forwarded(r)

\* Two finished tarball requests for one package with the same count and
\* different versions, one of them published less than minAgeHours ago, were
\* both forwarded.
C24_Witness ==
    \E s, t \in Slots :
        LET a == requests[s]
            b == requests[t]
        IN  /\ GatedTarball(a) /\ GatedTarball(b)
            /\ a.packageName = b.packageName
            /\ a.version # b.version
            /\ a.oracle.kind = "ok" /\ b.fromCache
            /\ a.weeklyDownloads = b.weeklyDownloads
            /\ a.weeklyDownloads >= minWeeklyDownloads
            /\ minAgeHours > 0
            /\ YoungerThanMinAge(b)
            /\ Forwarded(a) /\ Forwarded(b)

\* The filter was invoked again on the document it was invoked on before.
InvokedAgain ==
    /\ call.comp \in {"age", "gate"}
    /\ call'.comp = call.comp
    /\ call.pass = 1 /\ call'.pass = 1
    /\ packageInfo' = packageInfo
    /\ now' = now
    /\ call'.again
    /\ call'.prevAt = call.at /\ call'.at = now

\* The versions a returned document shows.
Visible(doc) == IF doc.hasVersions THEN Range(doc.versions) ELSE {}

\* The versions of `doc` whose publish time is a timestamp Date can parse.
ValidlyTimed(doc) ==
    IF doc.hasVersions /\ doc.hasTime
    THEN {v \in Range(doc.versions) : doc.time[v].kind = "iso"}
    ELSE {}

\* C25: for a fixed document and threshold, visibility is monotone in the
\* clock: at each further invocation, at a clock value not below that of the
\* invocation before, a version with a valid timestamp is shown exactly when
\* now - publishedAt exceeds minAgeHours hours, and a version the invocation
\* before showed is shown again. The output is that of a first invocation at
\* the same clock value: nothing of earlier invocations enters it.
C25_MonotoneVisibility ==
    [][InvokedAgain =>
          /\ call.at <= call'.at
          /\ \A v \in ValidlyTimed(packageInfo) :
                /\ v \in Visible(result') <=>
                      now - packageInfo.time[v].ms > minAgeHours * HOUR_MS
                /\ v \in Visible(result) => v \in Visible(result')
          /\ result' = IF call.comp = "age"
                       THEN Filter_filterPackageMetadata(packageInfo, now,
                                                         minAgeHours)
                       ELSE Middleware_filterPackageMetadata(packageInfo, now,
                                                             minAgeHours)]_vars

\* A version with a valid timestamp that the invocation before, at an
\* earlier clock value, had hidden is shown by the invocation after it.
C25_Witness ==
    /\ call.comp \in {"age", "gate"}
    /\ call.again
    /\ call.prevAt < call.at
    /\ \E v \in ValidlyTimed(packageInfo) :
          /\ ~(call.prevAt - packageInfo.time[v].ms > minAgeHours * HOUR_MS)
          /\ v \in Visible(result)

\* Two returned documents agree in versions, dist-tags and time map.
SameAnswer(a, b) ==
    /\ a.hasVersions = b.hasVersions /\ a.versions = b.versions
    /\ a.hasTags = b.hasTags /\ a.tags = b.tags
    /\ a.hasTime = b.hasTime /\ a.time = b.time

\* C26: the age filter the metadata gate applies to fetched metadata is the
\* same function as the age filter of the filter plugin: for every document,
\* threshold and clock value the two return the same versions, the same
\* dist-tags (the re-pointed `latest` included) and the same time map.
C26_SameAgeFilter ==
    (call.comp = "gate" /\ call.pass = 1) =>
        SameAnswer(result,
                   Filter_filterPackageMetadata(packageInfo, call.at,
                                                minAgeHours))

\* The <version> part of the filenames of the model that are written
\* <name>-<version>.tgz with a semantic version; <<>> for any other filename.
VersionWritten(filename) ==
    CASE filename = <<"l","e","f","t","-","p","a","d","-","0",".","0",".","1",".","t","g","z">>
            -> <<"0",".","0",".","1">>
      [] filename = <<"l","e","f","t","-","p","a","d","-","2",".","0",".","0",".","t","g","z">>
            -> <<"2",".","0",".","0">>
      [] filename = <<"p","k","g","-","1",".","0",".","0","-","b","e","t","a",".","1",".","t","g","z">>
            -> <<"1",".","0",".","0","-","b","e","t","a",".","1">>
      [] OTHER -> <<>>

\* C27: every tarball filename <name>-<version>.tgz whose version is a
\* semantic version, a dotted pre-release such as 1.0.0-beta.1 included,
\* parses and yields exactly that version, whatever hyphens the name holds;
\* so unless the package is allowlisted its download count is looked up and
\* the request is not forwarded unparsed.
C27_SemverFilenamesParse ==
    \A s \in Slots :
        LET r == requests[s]
        IN  ( /\ r.pc # "idle"
              /\ r.route \in TarballRoutes
              /\ VersionWritten(r.filename) # <<>> ) =>
                /\ r.matched
                /\ r.version = VersionWritten(r.filename)
                /\ ~isPackageAllowlisted(r.packageName) =>
                      \/ r.pc = "stats"
                      \/ r.weeklyDownloads # -1

\* Of the versions of `list` with the greatest publish timestamp, the one
\* that comes last in the list.
LastOfNewest(list, time) ==
    LET newest == {i \in 1..Len(list) :
                      \A j \in 1..Len(list) : time[list[j]].ms <= time[list[i]].ms}
        last == CHOOSE i \in newest : \A j \in newest : j <= i
    IN  list[last]

\* C28: when the plugin's filter re-points `latest` and several survivors
\* share the greatest publish timestamp, the version chosen is the one that
\* comes last in the iteration order of the input's versions.
C28_TieGoesToLast ==
    ( /\ FirstPass({"age", "popularity"})
      /\ ~call.blocked
      /\ packageInfo.hasTime
      /\ packageInfo.hasTags
      /\ packageInfo.tags["latest"] # NoTag
      /\ packageInfo.tags["latest"] \notin Listed(result)
      /\ result.versions # <<>> ) =>
        result.tags["latest"] = LastOfNewest(result.versions, packageInfo.time)

\* The statistics endpoint answers slot s in this step.
Answered(s) == requests[s].pc = "stats" /\ requests'[s].pc # "stats"

\* C29: the download cache only ever holds counts taken from successful
\* answers of the statistics endpoint: the cache changes only in a step in
\* which a query of index.ts got a 200 answer with a parsable body, and then
\* by the entry of that count; a 404 answer and a failed query (rejected
\* fetch, other status, unparsable body) write nothing, so the entry they
\* leave absent or expired makes the next call for the name query again and
\* the fail-open value is never what the cache serves.
C29_CacheOnlyFromSuccess ==
    [][/\ \A s \in Slots :
             (Answered(s) /\ requests'[s].oracle.kind
                                 \notin {"ok", "ok_no_downloads"}) =>
                 downloadCache' = downloadCache
       /\ downloadCache' # downloadCache =>
             \E s \in Slots :
                 /\ QuerySucceeds(s)
                 /\ downloadCache' =
                       [downloadCache EXCEPT ![requests[s].packageName] =
                           [has |-> TRUE,
                            downloads |-> requests'[s].oracle.downloads,
                            timestamp |-> now]]
       /\ \A s \in Slots :
             (CallsGetWeeklyDownloads(s) /\ requests'[s].fromCache) =>
                 /\ downloadCache[requests'[s].packageName].has
                 /\ requests'[s].weeklyDownloads =
                       downloadCache[requests'[s].packageName].downloads
       /\ \A s \in Slots :
             (/\ CallsGetWeeklyDownloads(s)
              /\ ~downloadCache[requests'[s].packageName].has) =>
                 requests'[s].pc = "stats"]_vars

\* A query of index.ts failed, the handler went on with the fail-open value
\* above zero, and the cache has no entry for the package.
C29_Witness ==
    \E s \in Slots :
        LET r == requests[s]
        IN  /\ r.pc = "done"
            /\ r.plugin = "index"
            /\ QueryFailed(r.oracle)
            /\ r.weeklyDownloads = minWeeklyDownloads
            /\ minWeeklyDownloads > 0
            /\ ~downloadCache[r.packageName].has

\* The tags other than `latest`.
OtherTags == TagNames \ {"latest"}

\* C30: the filter (the plugin's, and the gate's copy of it) never re-points
\* or invents a tag other than `latest`: every other tag of the output maps
\* to the version it maps to in the input, a tag whose version was removed
\* is dropped even when older versions survive, and the output has a
\* `latest` only when the input had.
C30_OnlyLatestRepointed ==
    FirstPass({"age", "popularity", "gate"}) =>
        /\ \A t \in OtherTags :
              /\ result.tags[t] # NoTag =>
                    /\ packageInfo.hasTags
                    /\ result.tags[t] = packageInfo.tags[t]
              /\ ( /\ packageInfo.hasTags
                   /\ packageInfo.tags[t] \in Listed(packageInfo)
                   /\ packageInfo.tags[t] \notin Listed(result) ) =>
                    result.tags[t] = NoTag
        /\ result.tags["latest"] # NoTag =>
              /\ packageInfo.hasTags
              /\ packageInfo.tags["latest"] # NoTag

\* `beta` and `latest` pointed at a version that was removed while an older
\* one survived: the output has no `beta`, and its `latest` is the survivor.
C30_Witness ==
    /\ FirstPass({"age", "popularity"})
    /\ ~call.blocked
    /\ packageInfo.hasTags
    /\ packageInfo.tags["beta"] \in Listed(packageInfo) \ Listed(result)
    /\ packageInfo.tags["latest"] = packageInfo.tags["beta"]
    /\ result.versions # <<>>
    /\ result.tags["beta"] = NoTag
    /\ result.tags["latest"] \in Listed(result)

====
